---- MODULE Spec2Model ----
(***************************************************************************)
(* Arduino Serial Data Viewer: the ingestion session of the index page     *)
(* (raw log, channel registry, live series, throttled chart update,        *)
(* disconnect recompute, clear) and the delimiter reassembler of the two   *)
(* transport hooks.                                                        *)
(*                                                                         *)
(* The index page always runs on the agent transport: isAvailable() of     *)
(* useArduino returns false on its first line, so the protocol effect      *)
(* selects "agent".  The session below therefore uses the connect and      *)
(* disconnect of useArduinoCreateAgent, which run synchronously.           *)
(***************************************************************************)
EXTENDS Integers, Sequences, FiniteSets, TLC

VARIABLES
    now,            \* the clock read by the throttle (ms)
    status,         \* agent hook status, as rendered
    serialData,     \* serialData.current: the raw log
    series,         \* the registry Map<string, number>
    chartData,      \* chartDataRef.current, the array the closures push to
    chart,          \* the series the chart widget was last handed
    buttonsEnabled, \* serialData.current.length > 0 at the last render
    lastArgs,       \* throttle: arguments of the latest call, <<>> = undefined
    lastCallTime,   \* throttle: time of the latest call, -1 = undefined
    lastInvokeTime, \* throttle: time of the latest actual invocation
    timerId,        \* throttle: expiry of the pending timer, -1 = undefined
    delivered,      \* history: records handed to onRead since the last clear
    ran,            \* history: actual invocations since the last clear
    requests,       \* history: every call of updateChartData, with its time
    published,      \* history: every actual invocation, with its time
    cleared,        \* history: cleared and no record delivered since
    diagnostics,    \* history: diagnostics logged since the last clear
    csv,            \* the CSV last exported from the present log, <<>> = none
    snapshot,       \* history: <<highResData>> built from the present log
    statistics,     \* the statistics state
    transport,      \* reassembler: which hook reads the stream
    readDelimiter,  \* reassembler: the configured delimiter
    readData,       \* reassembler: the pending buffer
    onReadCalls,    \* history: strings passed to onRead by the reassembler
    received,       \* history: the chunks received, in order
    serial,         \* useArduino: module variables, status, calls and loops
    agent           \* useArduinoCreateAgent: socket, callback, calls

vars == <<now, status, serialData, series, chartData, chart, buttonsEnabled,
          lastArgs, lastCallTime, lastInvokeTime, timerId,
          delivered, ran, requests, published, cleared,
          diagnostics, csv, snapshot, statistics,
          transport, readDelimiter, readData, onReadCalls, received,
          serial, agent>>

sessionVars == <<now, status, serialData, series, chartData, chart,
                 buttonsEnabled, lastArgs, lastCallTime, lastInvokeTime,
                 timerId, delivered, ran, requests, published, cleared,
                 diagnostics, csv, snapshot, statistics>>

hookVars == <<serial, agent>>

reasmCore == <<transport, readDelimiter, readData, onReadCalls, received>>

reasmVars == <<reasmCore, hookVars>>

(***************************************************************************)
(* Bounds                                                                  *)
(***************************************************************************)
MaxLog == 3
MaxTime == 375
TickStep == 125
MaxChunks == 3
MaxChunkLen == 2
MaxRequests == 4

(***************************************************************************)
(* Program constants                                                       *)
(***************************************************************************)
CHART_UPDATE_INTERVAL == 250

(***************************************************************************)
(* Records and JSON.parse                                                  *)
(***************************************************************************)
RecX == "{\"x\":1}"
RecY == "{\"y\":2}"
RecYX == "{\"y\":3,\"x\":4}"
RecBad == "not json"
RecArr == "[5]"
RecNull == "null"

Records == {RecX, RecY, RecYX, RecBad}

\* Records among which some are JSON values other than an object
ValueRecords == {RecX, RecBad, RecArr, RecNull}

\* Records of one channel v, as a sketch printing one reading would send
RecV2 == "{\"v\":2}"
RecV4 == "{\"v\":4}"
RecV5 == "{\"v\":5}"
RecV7 == "{\"v\":7}"
RecV9 == "{\"v\":9}"

\* The property names that occur in the records
Keys == {"x", "y", "0", "v"}

\* JSON.parse on the record texts above: ok = FALSE is the SyntaxError;
\* type tells an object from an array and from null; keys is the list of
\* own property names in insertion order (what Object.keys returns for an
\* object or an array), vals the values by position.
JSONParse(jsonString) ==
    CASE jsonString = RecX  -> [ok |-> TRUE, type |-> "object",
                                keys |-> <<"x">>, vals |-> <<1>>]
      [] jsonString = RecY  -> [ok |-> TRUE, type |-> "object",
                                keys |-> <<"y">>, vals |-> <<2>>]
      [] jsonString = RecYX -> [ok |-> TRUE, type |-> "object",
                                keys |-> <<"y", "x">>, vals |-> <<3, 4>>]
      [] jsonString = RecV2 -> [ok |-> TRUE, type |-> "object",
                                keys |-> <<"v">>, vals |-> <<2>>]
      [] jsonString = RecV4 -> [ok |-> TRUE, type |-> "object",
                                keys |-> <<"v">>, vals |-> <<4>>]
      [] jsonString = RecV5 -> [ok |-> TRUE, type |-> "object",
                                keys |-> <<"v">>, vals |-> <<5>>]
      [] jsonString = RecV7 -> [ok |-> TRUE, type |-> "object",
                                keys |-> <<"v">>, vals |-> <<7>>]
      [] jsonString = RecV9 -> [ok |-> TRUE, type |-> "object",
                                keys |-> <<"v">>, vals |-> <<9>>]
      [] jsonString = RecArr -> [ok |-> TRUE, type |-> "array",
                                 keys |-> <<"0">>, vals |-> <<5>>]
      [] jsonString = RecNull -> [ok |-> TRUE, type |-> "null",
                                  keys |-> <<>>, vals |-> <<>>]
      [] OTHER              -> [ok |-> FALSE, type |-> "error",
                                keys |-> <<>>, vals |-> <<>>]

\* typeof dataObject[key] !== "undefined"
HasKey(data, key) == \E i \in 1..Len(data.keys) : data.keys[i] = key

\* dataObject[key]
ValueOf(data, key) ==
    data.vals[CHOOSE i \in 1..Len(data.keys) : data.keys[i] = key]

EmptyMap == [k \in {} |-> 0]

(***************************************************************************)
(* The function wrapped by useThrottleFn                                   *)
(***************************************************************************)
\* One step of Object.keys(data).forEach: register an unseen key with index
\* series.size and push an empty series, then push {x: index, y: data[key]}
\* onto chartData[seriesIndex].
RegisterKeyAfterInsert(ser, key) ==
    IF key \in DOMAIN ser THEN ser
    ELSE ser @@ (key :> Cardinality(DOMAIN ser) + 1)

RegisterKey(ser, key) ==
    IF key \in DOMAIN ser THEN ser
    ELSE ser @@ (key :> Cardinality(DOMAIN ser))

RECURSIVE ForEachKey(_, _, _, _, _)
ForEachKey(data, i, index, ser, cd) ==
    IF i > Len(data.keys) THEN [series |-> ser, chartData |-> cd]
    ELSE LET key == data.keys[i]
             ser1 == RegisterKey(ser, key)
             cd1 == IF key \in DOMAIN ser THEN cd
                    ELSE Append(cd, [name |-> key, data |-> <<>>])
             seriesIndex == ser1[key]
         IN  IF seriesIndex + 1 \in 1..Len(cd1)
             THEN ForEachKey(data, i + 1, index, ser1,
                      [cd1 EXCEPT ![seriesIndex + 1].data =
                           Append(@, [x |-> index, y |-> data.vals[i]])])
             \* chartData[seriesIndex] undefined: the TypeError ends the loop
             ELSE [series |-> ser1, chartData |-> cd1]

\* The body of updateChartData: the registry, the live series and the series
\* handed to the chart after one actual invocation.
\* A catch block that logs nothing
UpdateChartDataFnSilent(jsonString, index, ser, cd, ch) ==
    LET data == JSONParse(jsonString)
    IN  IF data.ok /\ data.type # "null"
        THEN LET r == ForEachKey(data, 1, index, ser, cd)
             IN  [series |-> r.series, chartData |-> r.chartData,
                  chart |-> r.chartData, log |-> <<>>]
        ELSE [series |-> ser, chartData |-> cd, chart |-> ch, log |-> <<>>]

\* JSON.parse throws a SyntaxError and Object.keys(null) a TypeError; the
\* catch logs the record text and nothing else changes.
UpdateChartDataFn(jsonString, index, ser, cd, ch) ==
    LET data == JSONParse(jsonString)
    IN  IF data.ok /\ data.type # "null"
        THEN LET r == ForEachKey(data, 1, index, ser, cd)
             IN  [series |-> r.series, chartData |-> r.chartData,
                  chart |-> r.chartData, log |-> <<>>]
        ELSE [series |-> ser, chartData |-> cd, chart |-> ch,
              log |-> <<[by |-> "updateChartData", text |-> jsonString]>>]

(***************************************************************************)
(* The throttle of useThrottleFn(fn, { wait }): leading and trailing edge, *)
(* the maximum wait equal to the wait                                      *)
(***************************************************************************)
Min(a, b) == IF a <= b THEN a ELSE b

ShouldInvokeAlways(time, callTime, invokeTime) == TRUE

ShouldInvoke(time, callTime, invokeTime) ==
    \/ callTime = -1
    \/ time - callTime >= CHART_UPDATE_INTERVAL
    \/ time - callTime < 0
    \/ time - invokeTime >= CHART_UPDATE_INTERVAL

RemainingWait(time) ==
    Min(CHART_UPDATE_INTERVAL - (time - lastCallTime),
        CHART_UPDATE_INTERVAL - (time - lastInvokeTime))

\* invokeFunc(time) applied to the arguments args
InvokeFunc(time, args) ==
    LET r == UpdateChartDataFn(args.jsonString, args.index,
                               series, chartData, chart)
    IN  /\ lastArgs' = <<>>
        /\ lastInvokeTime' = time
        /\ series' = r.series
        /\ chartData' = r.chartData
        /\ chart' = r.chart
        /\ ran' = Append(ran, args)
        /\ diagnostics' = diagnostics \o r.log

NoInvoke ==
    UNCHANGED <<lastInvokeTime, series, chartData, chart, ran, diagnostics>>

RunTrailingOnly(jsonString, index) ==
    /\ lastCallTime' = now
    /\ lastArgs' = <<[jsonString |-> jsonString, index |-> index]>>
    /\ timerId' = IF timerId = -1
                  THEN now + CHART_UPDATE_INTERVAL ELSE timerId
    /\ NoInvoke

\* The throttled function itself (run): what a call of updateChartData does.
Run(jsonString, index) ==
    LET args == [jsonString |-> jsonString, index |-> index]
        isInvoking == ShouldInvoke(now, lastCallTime, lastInvokeTime)
    IN  /\ lastCallTime' = now
        /\ IF isInvoking
           THEN \* leading edge, or an overdue timer restarted
                /\ timerId' = now + CHART_UPDATE_INTERVAL
                /\ InvokeFunc(now, args)
           ELSE /\ lastArgs' = <<args>>
                /\ timerId' = IF timerId = -1
                              THEN now + CHART_UPDATE_INTERVAL ELSE timerId
                /\ NoInvoke

\* timerExpired: the trailing edge invokes with the latest arguments, if any.
TimerExpiredCore ==
    /\ timerId # -1
    /\ now >= timerId
    /\ IF ShouldInvoke(now, lastCallTime, lastInvokeTime)
       THEN /\ timerId' = -1
            /\ IF lastArgs # <<>>
               THEN InvokeFunc(now, lastArgs[1])
               ELSE /\ lastArgs' = <<>>
                    /\ NoInvoke
       ELSE /\ timerId' = now + RemainingWait(now)
            /\ lastArgs' = lastArgs
            /\ NoInvoke
    /\ UNCHANGED <<now, status, serialData, buttonsEnabled, lastCallTime,
                   delivered, cleared, csv, snapshot, statistics>>

(***************************************************************************)
(* The index page                                                          *)
(***************************************************************************)
PushRecordIfParsed(log, value) ==
    IF JSONParse(value).ok THEN Append(log, value) ELSE log

\* serialData.current.push(value)
PushRecord(log, value) == Append(log, value)

\* options.onRead
OnReadCore(value) ==
    /\ status = "connected"
    /\ serialData' = PushRecord(serialData, value)
    /\ Run(value, Len(serialData') - 1)
    /\ delivered' = Append(delivered, value)
    /\ cleared' = FALSE
    /\ csv' = <<>>
    /\ snapshot' = <<>>
    /\ UNCHANGED <<now, status, buttonsEnabled, statistics>>

\* Array.from(series.entries()).sort((e1, e2) => e1[1] - e2[1]), as the
\* sequence of keys
RECURSIVE SortedEntries(_)
SortedEntries(ser) ==
    IF DOMAIN ser = {} THEN <<>>
    ELSE LET k == CHOOSE a \in DOMAIN ser :
                      \A b \in DOMAIN ser : ser[a] <= ser[b]
         IN  <<k>> \o SortedEntries([x \in DOMAIN ser \ {k} |-> ser[x]])

\* entries.forEach over one record of the log, in handleDisconnect
RECURSIVE PushEntries(_, _, _, _, _, _)
PushEntries(data, dataIndex, entries, ser, e, high) ==
    IF e > Len(entries) THEN high
    ELSE LET seriesKey == entries[e]
             seriesIndex == ser[seriesKey]
         IN  IF ~HasKey(data, seriesKey)
             THEN PushEntries(data, dataIndex, entries, ser, e + 1, high)
             ELSE IF seriesIndex + 1 \in 1..Len(high)
             THEN PushEntries(data, dataIndex, entries, ser, e + 1,
                      [high EXCEPT ![seriesIndex + 1].data =
                           Append(@, [x |-> dataIndex,
                                      y |-> ValueOf(data, seriesKey)])])
             ELSE high

\* The try block over one log record in handleDisconnect and exportToCSV
\* throws: JSON.parse fails, or dataObject is null and dataObject[seriesKey]
\* is evaluated for the first entry.
Throws(dataObject, entries) ==
    \/ ~dataObject.ok
    \/ dataObject.type = "null" /\ Len(entries) > 0

\* serialData.current.forEach in handleDisconnect
RECURSIVE ReplayLog(_, _, _, _, _)
ReplayLog(log, i, entries, ser, high) ==
    IF i > Len(log) THEN high
    ELSE LET dataObject == JSONParse(log[i])
         IN  ReplayLog(log, i + 1, entries, ser,
                 IF ~Throws(dataObject, entries)
                 THEN PushEntries(dataObject, i - 1, entries, ser, 1, high)
                 ELSE high)

\* The diagnostics logged by the catch blocks of a pass over the log
RECURSIVE CaughtInLog(_, _, _, _)
CaughtInLog(log, i, entries, by) ==
    IF i > Len(log) THEN <<>>
    ELSE (IF Throws(JSONParse(log[i]), entries)
          THEN <<[by |-> by, text |-> log[i]]>> ELSE <<>>)
             \o CaughtInLog(log, i + 1, entries, by)

HighResDataFromLive(log, ser) == chartData

\* highResData of handleDisconnect
HighResData(log, ser) ==
    LET entries == SortedEntries(ser)
        empty == [e \in 1..Len(entries) |->
                     [name |-> entries[e], data |-> <<>>]]
    IN  ReplayLog(log, 1, entries, ser, empty)

\* handleConnect: the agent connect, then handleClear if the log holds data;
\* the render that follows sees the emptied log.
HandleConnect ==
    /\ status = "disconnected"
    /\ status' = "connected"
    /\ IF Len(serialData) > 0
       THEN /\ serialData' = <<>>
            /\ chartData' = <<>>
            /\ series' = EmptyMap
            /\ delivered' = <<>>
            /\ ran' = <<>>
            /\ cleared' = TRUE
            /\ diagnostics' = <<>>
            /\ csv' = <<>>
            /\ snapshot' = <<>>
            /\ statistics' = <<>>
       ELSE UNCHANGED <<serialData, chartData, series, delivered, ran,
                        cleared, diagnostics, csv, snapshot, statistics>>
    /\ chart' = chartData'
    /\ buttonsEnabled' = FALSE
    /\ UNCHANGED <<now, lastArgs, lastCallTime, lastInvokeTime, timerId>>

\* handleDisconnect: the agent disconnect, then the recompute from the log
HandleDisconnect ==
    /\ status = "connected"
    /\ status' = "disconnected"
    /\ chartData' = HighResData(serialData, series)
    /\ chart' = chartData'
    /\ buttonsEnabled' = (Len(serialData) > 0)
    /\ diagnostics' = diagnostics \o
           CaughtInLog(serialData, 1, SortedEntries(series),
                       "handleDisconnect")
    /\ snapshot' = <<chartData'>>
    /\ UNCHANGED <<now, serialData, series, lastArgs, lastCallTime,
                   lastInvokeTime, timerId, delivered, ran, cleared, csv,
                   statistics>>

\* handleClear from the Clear Data button
HandleClear ==
    /\ buttonsEnabled
    /\ serialData' = <<>>
    /\ chartData' = <<>>
    /\ series' = EmptyMap
    /\ chart' = <<>>
    /\ buttonsEnabled' = FALSE
    /\ delivered' = <<>>
    /\ ran' = <<>>
    /\ cleared' = TRUE
    /\ diagnostics' = <<>>
    /\ csv' = <<>>
    /\ snapshot' = <<>>
    /\ statistics' = <<>>
    /\ UNCHANGED <<now, status, lastArgs, lastCallTime, lastInvokeTime,
                   timerId>>

(***************************************************************************)
(* exportToCSV.  The CSV text is held as its lines, and a line as the      *)
(* fields between its commas; numbers are rendered as decimal text.        *)
(***************************************************************************)
Digits == <<"0", "1", "2", "3", "4", "5", "6", "7", "8", "9">>

\* The text Array.prototype.join gives a number
NumToString(n) == Digits[n + 1]

\* The header line: the literal "sample," followed by the joined names.
\* With no entry the join is empty and the line is "sample,", two fields.
HeaderFields(entries) ==
    <<"sample">> \o (IF entries = <<>> THEN <<"">> ELSE entries)

\* rowData.join(","): the index, then dataObject[seriesKey] per entry, an
\* undefined value being joined as the empty text.
RowFields(dataObject, index, entries) ==
    <<NumToString(index)>> \o
        [e \in 1..Len(entries) |->
            IF HasKey(dataObject, entries[e])
            THEN NumToString(ValueOf(dataObject, entries[e]))
            ELSE ""]

\* serialData.current.forEach in exportToCSV: a record whose try block
\* throws contributes no line.
RECURSIVE CSVRows(_, _, _)
CSVRows(log, i, entries) ==
    IF i > Len(log) THEN <<>>
    ELSE LET dataObject == JSONParse(log[i])
         IN  (IF Throws(dataObject, entries) THEN <<>>
              ELSE <<RowFields(dataObject, i - 1, entries)>>)
                 \o CSVRows(log, i + 1, entries)

\* An export that writes a line for every record, the fields of a record
\* that cannot be read being left blank
CsvDataLinePerEntry(log, ser) ==
    LET entries == SortedEntries(ser)
    IN  <<HeaderFields(entries)>> \o
            [i \in 1..Len(log) |->
                RowFields(JSONParse(log[i]), i - 1, entries)]

\* csvData as built by exportToCSV
CsvData(log, ser) ==
    LET entries == SortedEntries(ser)
    IN  <<HeaderFields(entries)>> \o CSVRows(log, 1, entries)

\* exportToCSV from the Export Data button.  Its catch block writes the
\* error to the console and nothing else; the history of diagnostics
\* follows updateChartData and handleDisconnect only.
ExportToCSV ==
    /\ buttonsEnabled
    /\ csv' = CsvData(serialData, series)
    /\ UNCHANGED <<now, status, serialData, series, chartData, chart,
                   buttonsEnabled, lastArgs, lastCallTime, lastInvokeTime,
                   timerId, delivered, ran, cleared, diagnostics, snapshot,
                   statistics>>

(***************************************************************************)
(* calculateStatistics.  The mean and the standard deviation are kept as   *)
(* exact fractions: mean = sum / numSamples and stdev^2 = varNum / varDen  *)
(* with varNum = numSamples * sumSq - sum^2 and varDen = numSamples^2.     *)
(***************************************************************************)
RECURSIVE SumY(_)
SumY(data) == IF data = <<>> THEN 0 ELSE Head(data).y + SumY(Tail(data))

RECURSIVE SumSqY(_)
SumSqY(data) ==
    IF data = <<>> THEN 0
    ELSE Head(data).y * Head(data).y + SumSqY(Tail(data))

\* A standard deviation that divides by numSamples - 1
SeriesStatsOfSample(seriesData, name) ==
    LET numSamples == Len(seriesData.data)
    IN  [name |-> name,
         numSamples |-> numSamples,
         sum |-> SumY(seriesData.data),
         varNum |-> numSamples * SumSqY(seriesData.data)
                       - SumY(seriesData.data) * SumY(seriesData.data),
         varDen |-> numSamples * (numSamples - 1)]

\* One element of dataStats
SeriesStats(seriesData, name) ==
    LET numSamples == Len(seriesData.data)
    IN  [name |-> name,
         numSamples |-> numSamples,
         sum |-> SumY(seriesData.data),
         varNum |-> numSamples * SumSqY(seriesData.data)
                       - SumY(seriesData.data) * SumY(seriesData.data),
         varDen |-> numSamples * numSamples]

\* The figures of a row of the statistics table.  mean.toFixed(3) shows m
\* when sum / numSamples = m; a mean over no sample is the initial value 0
\* of the reduce.
MeanIs(stat, m) ==
    IF stat.numSamples = 0 THEN m = 0 ELSE stat.sum = m * stat.numSamples

\* stdev = Math.sqrt(varNum / varDen); over no sample it is the square root
\* of 0 / 0, not a number.
StdevIsNaN(stat) == stat.numSamples = 0

StdevIs(stat, sd) ==
    /\ ~StdevIsNaN(stat)
    /\ sd >= 0
    /\ sd * sd * stat.varDen = stat.varNum

\* rsd = (stdev / mean) * 100: not a number when stdev is, or when stdev
\* and mean are both 0; infinite when only the mean is 0.
RsdIsNaN(stat) ==
    \/ StdevIsNaN(stat)
    \/ stat.sum = 0 /\ stat.varNum = 0

RsdIsInfinite(stat) == ~RsdIsNaN(stat) /\ stat.sum = 0

RsdIs(stat, pct) ==
    /\ ~RsdIsNaN(stat) /\ ~RsdIsInfinite(stat)
    /\ pct * stat.sum >= 0
    /\ pct * pct * stat.sum * stat.sum * stat.varDen
           = 10000 * stat.varNum * stat.numSamples * stat.numSamples

\* A lookup of the name one entry too far
CalculateStatisticsNextEntry ==
    /\ buttonsEnabled
    /\ LET entries == SortedEntries(series)
       IN  IF Len(chartData) + 1 <= Len(entries)
           THEN /\ statistics' = [i \in 1..Len(chartData) |->
                                     SeriesStats(chartData[i], entries[i + 1])]
                /\ chart' = chartData
                /\ buttonsEnabled' = (Len(serialData) > 0)
                /\ UNCHANGED diagnostics
           ELSE /\ diagnostics' = Append(diagnostics,
                                      [by |-> "calculateStatistics",
                                       text |-> "TypeError"])
                /\ UNCHANGED <<statistics, chart, buttonsEnabled>>
    /\ UNCHANGED <<now, status, serialData, series, chartData, lastArgs,
                   lastCallTime, lastInvokeTime, timerId, delivered, ran,
                   cleared, csv, snapshot>>

\* calculateStatistics from the Statistics button.  entries[index][0] of a
\* series beyond the registry throws a TypeError that nothing catches: it
\* is reported on the console and no state is set.
CalculateStatistics ==
    /\ buttonsEnabled
    /\ LET entries == SortedEntries(series)
       IN  IF Len(chartData) <= Len(entries)
           THEN /\ statistics' = [i \in 1..Len(chartData) |->
                                     SeriesStats(chartData[i], entries[i])]
                /\ chart' = chartData
                /\ buttonsEnabled' = (Len(serialData) > 0)
                /\ UNCHANGED diagnostics
           ELSE /\ diagnostics' = Append(diagnostics,
                                      [by |-> "calculateStatistics",
                                       text |-> "TypeError"])
                /\ UNCHANGED <<statistics, chart, buttonsEnabled>>
    /\ UNCHANGED <<now, status, serialData, series, chartData, lastArgs,
                   lastCallTime, lastInvokeTime, timerId, delivered, ran,
                   cleared, csv, snapshot>>

(***************************************************************************)
(* The session specification                                               *)
(***************************************************************************)
ThrottleInit ==
    /\ lastArgs = <<>>
    /\ lastCallTime = -1
    /\ lastInvokeTime = 0
    /\ timerId = -1

SessionInit ==
    /\ now = 0
    /\ status = "disconnected"
    /\ serialData = <<>>
    /\ series = EmptyMap
    /\ chartData = <<>>
    /\ chart = <<>>
    /\ buttonsEnabled = FALSE
    /\ ThrottleInit
    /\ delivered = <<>>
    /\ ran = <<>>
    /\ requests = <<>>
    /\ published = <<>>
    /\ cleared = FALSE
    /\ diagnostics = <<>>
    /\ csv = <<>>
    /\ snapshot = <<>>
    /\ statistics = <<>>

(***************************************************************************)
(* The hooks at rest: useArduino after module load (port, reader null,     *)
(* status "disconnected") and useArduinoCreateAgent after module load      *)
(***************************************************************************)
Ports == {"A", "B"}

\* opened[p]: the connect call that opened port p, 0 while p is closed;
\* locked: ports whose readable is piped into a decoder; errored: ports
\* whose stream failed; calls: every connect call with its position;
\* loops: the running readLoop invocations, each with its local readData and
\* the reader its pending read() waits on, in the order of their reads;
\* emitted, dropped and reads are history.
SerialIdle ==
    [port |-> "null", reader |-> "null", status |-> "disconnected",
     opened |-> [p \in Ports |-> 0], locked |-> {}, errored |-> {},
     calls |-> <<>>, loops |-> <<>>,
     emitted |-> <<>>, dropped |-> <<>>, reads |-> 0]

NullCallback == [kind |-> "null", call |-> 0, count |-> 0]

\* socket: the module variable, 0 = null, else the number of the socket;
\* sockets: every socket made by io(), with the call that made it, its
\* state and the number of message/disconnect listeners registered on it;
\* currentCallback: _currentCallback, with the call it belongs to and the
\* counter of its closure; calls: every fetchDevices call with its
\* position and result; messages is history.
AgentIdle ==
    [socket |-> 0, sockets |-> <<>>, currentCallback |-> NullCallback,
     calls |-> <<>>, messages |-> 0]

HooksIdle ==
    /\ serial = SerialIdle
    /\ agent = AgentIdle

ReasmIdle ==
    /\ transport = "agent"
    /\ readDelimiter = <<"LF">>
    /\ readData = <<>>
    /\ onReadCalls = <<>>
    /\ received = <<>>
    /\ HooksIdle

Init == SessionInit /\ ReasmIdle

OnRead(value) ==
    /\ Len(serialData) < MaxLog
    /\ OnReadCore(value)
    /\ UNCHANGED <<requests, published>>
    /\ UNCHANGED reasmVars

TimerExpired ==
    /\ TimerExpiredCore
    /\ UNCHANGED <<requests, published>>
    /\ UNCHANGED reasmVars

\* Time passes; a due timer fires before the clock moves on.
Tick ==
    /\ now < MaxTime
    /\ timerId = -1 \/ now < timerId
    /\ now' = IF timerId # -1 /\ timerId < now + TickStep
              THEN timerId ELSE now + TickStep
    /\ UNCHANGED <<status, serialData, series, chartData, chart,
                   buttonsEnabled, lastArgs, lastCallTime, lastInvokeTime,
                   timerId, delivered, ran, requests, published, cleared,
                   diagnostics, csv, snapshot, statistics>>
    /\ UNCHANGED reasmVars

Connect == HandleConnect /\ UNCHANGED <<requests, published>>
               /\ UNCHANGED reasmVars

Disconnect == HandleDisconnect /\ UNCHANGED <<requests, published>>
                  /\ UNCHANGED reasmVars

Clear == HandleClear /\ UNCHANGED <<requests, published>>
             /\ UNCHANGED reasmVars

Export == ExportToCSV /\ UNCHANGED <<requests, published>>
              /\ UNCHANGED reasmVars

Statistics == CalculateStatistics /\ UNCHANGED <<requests, published>>
                  /\ UNCHANGED reasmVars

Next ==
    \/ Connect
    \/ \E value \in Records : OnRead(value)
    \/ TimerExpired
    \/ Tick
    \/ Disconnect
    \/ Clear
    \/ Export
    \/ Statistics

Spec == Init /\ [][Next]_vars

\* The same session fed with JSON values of every kind
NextValues ==
    \/ Connect
    \/ \E value \in ValueRecords : OnRead(value)
    \/ TimerExpired
    \/ Tick
    \/ Disconnect
    \/ Clear
    \/ Export
    \/ Statistics

SpecValues == Init /\ [][NextValues]_vars

(***************************************************************************)
(* Statistics of a recorded session: the page after a disconnect, for the  *)
(* logs that can be cut out of a recording of channel v in which two       *)
(* records carry another channel only.                                     *)
(***************************************************************************)
Recording == <<RecV2, RecX, RecV4, RecV4, RecV4, RecV5, RecX, RecV5, RecV7,
               RecV9>>

\* The records of the recording at the chosen positions, in order
RECURSIVE Cut(_, _)
Cut(positions, i) ==
    IF i > Len(Recording) THEN <<>>
    ELSE (IF i \in positions THEN <<Recording[i]>> ELSE <<>>)
             \o Cut(positions, i + 1)

\* The registry and the series after updateChartData ran on every record
RECURSIVE FeedAll(_, _, _, _)
FeedAll(log, i, ser, cd) ==
    IF i > Len(log) THEN [series |-> ser, chartData |-> cd]
    ELSE LET r == UpdateChartDataFn(log[i], i - 1, ser, cd, cd)
         IN  FeedAll(log, i + 1, r.series, r.chartData)

StatsInit ==
    /\ \E positions \in SUBSET (1..Len(Recording)) :
           /\ positions # {}
           /\ serialData = Cut(positions, 1)
    /\ series = FeedAll(serialData, 1, EmptyMap, <<>>).series
    /\ chartData = HighResData(serialData, series)
    /\ chart = chartData
    /\ snapshot = <<chartData>>
    /\ delivered = serialData
    /\ ran = [i \in 1..Len(serialData) |->
                 [jsonString |-> serialData[i], index |-> i - 1]]
    /\ now = 0
    /\ status = "disconnected"
    /\ buttonsEnabled = TRUE
    /\ ThrottleInit
    /\ requests = <<>>
    /\ published = <<>>
    /\ cleared = FALSE
    /\ diagnostics = <<>>
    /\ csv = <<>>
    /\ statistics = <<>>
    /\ ReasmIdle

StatsNext == Statistics

SpecStats == StatsInit /\ [][StatsNext]_vars

TypeOK ==
    /\ now \in 0..(MaxTime + TickStep)
    /\ status \in {"connected", "disconnected"}
    /\ Len(serialData) <= MaxLog
    /\ Len(chartData) = Cardinality(DOMAIN series)

(***************************************************************************)
(* The delimiter reassembler of readLoop (useArduino) and of the message   *)
(* callback installed by connect (useArduinoCreateAgent).  Text is a       *)
(* sequence of characters.                                                 *)
(***************************************************************************)
Chars == {"a", "CR", "LF"}

Delimiters == {<<>>, <<"LF">>, <<"CR", "LF">>}

Chunks == UNION {[1..n -> Chars] : n \in 0..MaxChunkLen}

\* String.prototype.split for a non-empty separator
RECURSIVE Split(_, _)
Split(s, d) ==
    LET hits == {i \in 1..(Len(s) - Len(d) + 1) :
                     SubSeq(s, i, i + Len(d) - 1) = d}
    IN  IF hits = {} THEN <<s>>
        ELSE LET i == CHOOSE h \in hits : \A g \in hits : h <= g
             IN  <<SubSeq(s, 1, i - 1)>>
                     \o Split(SubSeq(s, i + Len(d), Len(s)), d)

\* A reassembler that emits the first piece without the buffer before it
ReassembleWithoutBuffer(value, buf, delim) ==
    IF delim = <<>>
    THEN [calls |-> <<value>>, readData |-> buf]
    ELSE LET parsedStrings == Split(value, delim)
         IN  IF Len(parsedStrings) = 1
             THEN [calls |-> <<>>, readData |-> buf \o value]
             ELSE LET rest == Tail(parsedStrings)
                  IN  [calls |-> <<Head(parsedStrings)>>
                                     \o SubSeq(rest, 1, Len(rest) - 1),
                       readData |-> rest[Len(rest)]]

\* The branch on readDelimiter shared by both hooks: the strings passed to
\* onRead for one chunk, in call order, and the buffer left behind.
Reassemble(value, buf, delim) ==
    IF delim = <<>>
    THEN [calls |-> <<value>>, readData |-> buf]
    ELSE LET parsedStrings == Split(value, delim)
         IN  IF Len(parsedStrings) = 1
             THEN [calls |-> <<>>, readData |-> buf \o value]
             ELSE LET rest == Tail(parsedStrings)
                  IN  [calls |-> <<buf \o Head(parsedStrings)>>
                                     \o SubSeq(rest, 1, Len(rest) - 1),
                       readData |-> rest[Len(rest)]]

\* An iteration that does not test the value read
ReadLoopStepUnguarded(value) ==
    /\ transport = "serial"
    /\ Len(received) < MaxChunks
    /\ received' = Append(received, value)
    /\ LET r == Reassemble(value, readData, readDelimiter)
       IN  /\ onReadCalls' = onReadCalls \o r.calls
           /\ readData' = r.readData
    /\ UNCHANGED <<transport, readDelimiter, hookVars>>
    /\ UNCHANGED sessionVars

\* One iteration of the while loop of readLoop: an empty value is skipped.
ReadLoopStep(value) ==
    /\ transport = "serial"
    /\ Len(received) < MaxChunks
    /\ received' = Append(received, value)
    /\ IF value # <<>>
       THEN LET r == Reassemble(value, readData, readDelimiter)
            IN  /\ onReadCalls' = onReadCalls \o r.calls
                /\ readData' = r.readData
       ELSE UNCHANGED <<onReadCalls, readData>>
    /\ UNCHANGED <<transport, readDelimiter, hookVars>>
    /\ UNCHANGED sessionVars

\* The _currentCallback of connect, for a message {"D": value}
AgentMessage(value) ==
    /\ transport = "agent"
    /\ Len(received) < MaxChunks
    /\ received' = Append(received, value)
    /\ LET r == Reassemble(value, readData, readDelimiter)
       IN  /\ onReadCalls' = onReadCalls \o r.calls
           /\ readData' = r.readData
    /\ UNCHANGED <<transport, readDelimiter, hookVars>>
    /\ UNCHANGED sessionVars

ReasmInit ==
    /\ SessionInit
    /\ transport \in {"serial", "agent"}
    /\ readDelimiter \in Delimiters
    /\ readData = <<>>
    /\ onReadCalls = <<>>
    /\ received = <<>>
    /\ HooksIdle

ReasmNext ==
    \/ \E value \in Chunks : ReadLoopStep(value)
    \/ \E value \in Chunks : AgentMessage(value)

SpecReasm == ReasmInit /\ [][ReasmNext]_vars

(***************************************************************************)
(* The throttle on a timeline: a connected session in which                *)
(* updateChartData is called at chosen instants                            *)
(***************************************************************************)
RequestTimes == {0, 10, 50, 260}

ThrottleSessionInit ==
    /\ now = 0
    /\ status = "connected"
    /\ serialData = <<>>
    /\ series = EmptyMap
    /\ chartData = <<>>
    /\ chart = <<>>
    /\ buttonsEnabled = FALSE
    /\ ThrottleInit
    /\ delivered = <<>>
    /\ ran = <<>>
    /\ requests = <<>>
    /\ published = <<>>
    /\ cleared = FALSE
    /\ diagnostics = <<>>
    /\ csv = <<>>
    /\ snapshot = <<>>
    /\ statistics = <<>>
    /\ ReasmIdle

\* The invocation made by this step, if any, stamped with the time
Stamp ==
    IF Len(ran') > Len(ran)
    THEN Append(published, [time |-> now, index |-> ran'[Len(ran')].index])
    ELSE published

Request(value) ==
    /\ Len(serialData) < MaxRequests
    /\ OnReadCore(value)
    /\ requests' = Append(requests, now)
    /\ published' = Stamp
    /\ UNCHANGED reasmVars

Fire ==
    /\ TimerExpiredCore
    /\ published' = Stamp
    /\ UNCHANGED requests
    /\ UNCHANGED reasmVars

\* The clock moves to the next instant of interest, never past a due timer.
AdvanceTo(t) ==
    /\ t > now
    /\ timerId = -1 \/ t <= timerId
    /\ now' = t
    /\ UNCHANGED <<status, serialData, series, chartData, chart,
                   buttonsEnabled, lastArgs, lastCallTime, lastInvokeTime,
                   timerId, delivered, ran, requests, published, cleared,
                   diagnostics, csv, snapshot, statistics>>
    /\ UNCHANGED reasmVars

ThrottleNext ==
    \/ \E value \in Records : Request(value)
    \/ Fire
    \/ \E t \in RequestTimes \cup {timerId} : AdvanceTo(t)

SpecThrottle == ThrottleSessionInit /\ [][ThrottleNext]_vars

(***************************************************************************)
(* Properties                                                              *)
(***************************************************************************)
\* The samples of channel key in a series list cd, under registry ser
SamplesOf(cd, ser, key) == cd[ser[key] + 1].data

\* The record at log position i (0-based) parses and contains key
RecordHas(log, i, key) ==
    /\ JSONParse(log[i + 1]).ok
    /\ HasKey(JSONParse(log[i + 1]), key)

\* The keys of all records of a log that parse
KeysOfLog(log) ==
    {k \in Keys : \E i \in 0..(Len(log) - 1) : RecordHas(log, i, k)}

\* C1: in every reachable state the raw log equals the sequence of records
\* delivered to onRead since the last clear, whether or not they parse and
\* whatever the throttle does with them.
C1_LogEqualsDelivered == serialData = delivered

\* C1 witness: the log holds a record that does not parse and a record
\* whose chart update is still deferred by the throttle.
C1_Witness ==
    /\ Len(serialData) >= 2
    /\ \E i \in 1..Len(serialData) : serialData[i] = RecBad
    /\ lastArgs # <<>>
    /\ serialData = delivered

\* C2 (as claimed): for a non-empty delimiter, the strings passed to onRead
\* are the pieces of the received text split on the delimiter except the
\* last, and the pending buffer is the last piece, however the text was cut.
RECURSIVE Concat(_)
Concat(chunks) ==
    IF chunks = <<>> THEN <<>> ELSE Head(chunks) \o Concat(Tail(chunks))

C2_ChunkInvariance ==
    readDelimiter # <<>> =>
        LET pieces == Split(Concat(received), readDelimiter)
        IN  /\ onReadCalls = SubSeq(pieces, 1, Len(pieces) - 1)
            /\ readData = pieces[Len(pieces)]

FirstSeen(key, runs) ==
    LET hits == {p \in (1..Len(runs)) \X (1..2) :
                    LET d == JSONParse(runs[p[1]].jsonString)
                    IN  d.ok /\ p[2] <= Len(d.keys) /\ d.keys[p[2]] = key}
        first == CHOOSE p \in hits : \A q \in hits :
                     p[1] < q[1] \/ (p[1] = q[1] /\ p[2] <= q[2])
    IN  first[1] * 10 + first[2]

KeysOfRuns(runs) ==
    {k \in Keys : \E j \in 1..Len(runs) :
        JSONParse(runs[j].jsonString).ok
        /\ HasKey(JSONParse(runs[j].jsonString), k)}

C5_TwoPublishes ==
    (requests = <<0, 10, 50, 260>> /\ timerId = -1)
        => /\ Len(published) = 2
           /\ published[1].index = 2
           /\ published[2].index = 3

\* C5 (amended): requests at 0, 10, 50 and 260 with an interval of 250 give
\* exactly three actual calls: at t=0 for the first request (leading edge),
\* at t=250 for the request of t=50, and at t=510 for the request of t=260.
C5_ThreePublishes ==
    requests = <<0, 10, 50, 260>> =>
        published =
            IF timerId = -1
            THEN <<[time |-> 0, index |-> 0], [time |-> 250, index |-> 2],
                   [time |-> 510, index |-> 3]>>
            ELSE <<[time |-> 0, index |-> 0], [time |-> 250, index |-> 2]>>

\* C5 witness: the four requests were made at 0, 10, 50, 260 and the last
\* timer has fired.
C5_Witness ==
    /\ requests = <<0, 10, 50, 260>>
    /\ timerId = -1
    /\ now = 510
    /\ Len(published) = 3

\* C6: right after handleDisconnect ran on a connected session, the chart
\* holds one series per registered channel, and for every registered channel
\* and every log record that parses and contains it exactly one point
\* (log index, value), also when a deferred update is still pending.
C6_DisconnectRecomputes ==
    [][(status = "connected" /\ status' = "disconnected") =>
        /\ Len(chart') = Cardinality(DOMAIN series')
        /\ \A key \in DOMAIN series' :
              /\ chart'[series'[key] + 1].name = key
              /\ \A i \in 0..(Len(serialData') - 1) :
                    RecordHas(serialData', i, key) =>
                        LET pts == SamplesOf(chart', series', key)
                            at == {j \in 1..Len(pts) : pts[j].x = i}
                        IN  /\ Cardinality(at) = 1
                            /\ \A j \in at : pts[j].y =
                                   ValueOf(JSONParse(serialData'[i + 1]), key)
       ]_vars

\* C6 witness: disconnected with a deferred update still pending, and the
\* chart holds a point for the record of that deferred update.
C6_Witness ==
    /\ status = "disconnected"
    /\ timerId # -1
    /\ lastArgs # <<>>
    /\ \E s \in 1..Len(chart) : \E j \in 1..Len(chart[s].data) :
           chart[s].data[j].x = lastArgs[1].index
    /\ \A j \in 1..Len(ran) : ran[j].index # lastArgs[1].index

\* C7 (as claimed): while the session stays disconnected, the throttled
\* function is not invoked any more.
C7_NoPublishAfterDisconnect ==
    [][(status = "disconnected" /\ status' = "disconnected")
           => Len(ran') <= Len(ran)]_vars

\* What the unthrottled path builds from a log: the registry of all keys
RECURSIVE RegistryOfLog(_, _, _)
RegistryOfLog(log, i, ser) ==
    IF i > Len(log) THEN ser
    ELSE RegistryOfLog(log, i + 1,
             UpdateChartDataFn(log[i], i - 1, ser,
                 [s \in 1..Cardinality(DOMAIN ser) |->
                     [name |-> "", data |-> <<>>]], <<>>).series)

\* C8 (as claimed): the snapshot published at disconnect is a function of
\* the raw log only: it is the snapshot of the run in which every record was
\* processed, whatever the arrival times were.
C8_SnapshotFunctionOfLog ==
    [][(status = "connected" /\ status' = "disconnected") =>
          chart' = HighResData(serialData,
                               RegistryOfLog(serialData, 1, EmptyMap))]_vars

\* C9 (as claimed): every channel's sample sequence is strictly increasing
\* in sample index.
C9_StrictlyIncreasing ==
    \A s \in 1..Len(chartData) :
        \A i, j \in 1..Len(chartData[s].data) :
            i < j => chartData[s].data[i].x < chartData[s].data[j].x

\* C10 (as claimed): after a clear and until a new record is delivered, the
\* log, the registry and the series are empty.
C10_ClearedStaysEmpty ==
    cleared => /\ serialData = <<>>
               /\ series = EmptyMap
               /\ chartData = <<>>

\* The diagnostics logged by the catch block of updateChartData
LiveDiagnostics ==
    SelectSeq(diagnostics, LAMBDA d : d.by = "updateChartData")

\* The diagnostics due for the invocations made: one for every invocation
\* on a record that does not parse
RECURSIVE DiagnosticsOfRuns(_)
DiagnosticsOfRuns(runs) ==
    IF runs = <<>> THEN <<>>
    ELSE (IF JSONParse(Head(runs).jsonString).ok
             /\ JSONParse(Head(runs).jsonString).type # "null"
          THEN <<>>
          ELSE <<[by |-> "updateChartData",
                  text |-> Head(runs).jsonString]>>)
             \o DiagnosticsOfRuns(Tail(runs))

\* The three records of the scenario were delivered and no call is pending
C11_Fed ==
    /\ delivered = <<RecX, RecBad, RecY>>
    /\ lastArgs = <<>>
    /\ timerId = -1

C12_NonObjectSkipped ==
    /\ "0" \notin DOMAIN series
    /\ \A s \in 1..Len(chartData) : chartData[s].name # "0"
    /\ snapshot # <<>> =>
           \A s \in 1..Len(snapshot[1]) : snapshot[1][s].name # "0"
    /\ csv # <<>> => \A f \in 1..Len(csv[1]) : csv[1][f] # "0"

\* Array.prototype.join of a list of texts with a separator
RECURSIVE Join(_, _)
Join(strings, sep) ==
    IF strings = <<>> THEN <<>>
    ELSE IF Len(strings) = 1 THEN strings[1]
    ELSE strings[1] \o sep \o Join(Tail(strings), sep)

\* C13: for a non-empty delimiter, the strings passed to onRead joined with
\* the delimiter, then the delimiter and the pending buffer (the buffer
\* alone when nothing was passed to onRead), are the concatenation of the
\* chunks received: nothing is duplicated and nothing is dropped.
C13_NothingLostOrDuplicated ==
    readDelimiter # <<>> =>
        (IF onReadCalls = <<>> THEN readData
         ELSE Join(onReadCalls, readDelimiter) \o readDelimiter \o readData)
            = Concat(received)

\* C13 witness: three chunks gave two calls, the first from a chunk that
\* completed a buffered piece, and text is still pending.
C13_Witness ==
    /\ readDelimiter # <<>>
    /\ Len(received) = 3
    /\ Len(onReadCalls) >= 2
    /\ Len(onReadCalls[1]) > Len(received[1])
    /\ readData # <<>>

\* The text holds an occurrence of the non-empty separator
Contains(s, d) ==
    \E i \in 1..(Len(s) - Len(d) + 1) : SubSeq(s, i, i + Len(d) - 1) = d

\* C14 (as claimed): for a non-empty delimiter, no string passed to onRead
\* contains the delimiter.
C14_NoDelimiterInRecord ==
    readDelimiter # <<>> =>
        \A c \in 1..Len(onReadCalls) : ~Contains(onReadCalls[c], readDelimiter)

\* C15 (as claimed): with the empty delimiter every chunk received, the
\* empty chunk included, gave exactly one onRead call with that chunk, and
\* nothing is buffered.
C15_OneCallPerChunk ==
    readDelimiter = <<>> =>
        /\ onReadCalls = received
        /\ readData = <<>>

\* C15 (amended): with the empty delimiter nothing is buffered; on the
\* agent transport every chunk received gave exactly one onRead call with
\* that chunk, and on the serial transport every non-empty chunk did, an
\* empty chunk giving no call.
C15_OneCallPerNonEmptyChunk ==
    readDelimiter = <<>> =>
        /\ readData = <<>>
        /\ transport = "agent" => onReadCalls = received
        /\ transport = "serial" =>
               onReadCalls = SelectSeq(received, LAMBDA v : v # <<>>)

\* C15 witness: the serial transport read an empty chunk between two
\* chunks of text, and onRead was called twice.
C15_Witness ==
    /\ readDelimiter = <<>>
    /\ transport = "serial"
    /\ Len(received) = 3
    /\ received[1] # <<>> /\ received[2] = <<>> /\ received[3] # <<>>
    /\ onReadCalls = <<received[1], received[3]>>

\* The first fields of the data rows of a CSV
SampleFields(lines) == [r \in 1..(Len(lines) - 1) |-> lines[r + 1][1]]

\* The log indexes of the records whose row is written: the records that
\* parse and whose fields can be looked up
WrittenIndexes(log, entries) ==
    SelectSeq([i \in 1..Len(log) |-> i - 1],
              LAMBDA i : ~Throws(JSONParse(log[i + 1]), entries))

\* C16 (as claimed): the CSV has one data row per log entry, in log order,
\* and the first field of the row of entry i is i, whatever the log holds.
C16_RowPerLogEntry ==
    csv # <<>> =>
        SampleFields(csv) = [i \in 1..Len(serialData) |-> NumToString(i - 1)]

\* C16 (amended): an export writes one data row per log entry that parses
\* and whose fields can be looked up, in log order, and the first field of
\* the row of entry i is i; an entry that does not parse, or that is null
\* while a channel is registered, has no row.
C16_RowPerReadableEntry ==
    [][csv' # <<>> /\ csv' # csv =>
          LET written == WrittenIndexes(serialData, SortedEntries(series))
          IN  SampleFields(csv') =
                  [k \in 1..Len(written) |-> NumToString(written[k])]]_vars

\* C16 witness: a CSV of a log of three entries whose middle entry does not
\* parse: the rows are those of entries 0 and 2.
C16_Witness ==
    /\ Len(serialData) = 3
    /\ ~JSONParse(serialData[2]).ok
    /\ csv # <<>>
    /\ SampleFields(csv) = <<"0", "2">>

\* The number a decimal text of the CSV stands for
StringToNum(str) == CHOOSE n \in 0..(Len(Digits) - 1) : Digits[n + 1] = str

\* The header and the rows of a CSV agree with a list of channel names and
\* with the log: the header is sample and the names, every row has one
\* field per name after the index, blank exactly where the record of that
\* index lacks the name.
CsvShape(lines, entries, log) ==
    /\ lines[1] = <<"sample">> \o entries
    /\ \A r \in 2..Len(lines) :
           /\ Len(lines[r]) = 1 + Len(entries)
           /\ \A e \in 1..Len(entries) :
                  LET dataObject == JSONParse(log[StringToNum(lines[r][1]) + 1])
                  IN  IF HasKey(dataObject, entries[e])
                      THEN lines[r][e + 1] =
                               NumToString(ValueOf(dataObject, entries[e]))
                      ELSE lines[r][e + 1] = ""

\* C17 (as claimed): an export writes the header sample followed by the
\* channel names in registry order, and every data row has exactly one
\* field per registered channel in that order, empty where the record lacks
\* the channel.
C17_HeaderAndFields ==
    [][csv' # <<>> /\ csv' # csv =>
          CsvShape(csv', SortedEntries(series), serialData)]_vars

\* The field of a CSV line at a column, blank when the line is shorter
FieldAt(line, col) == IF col <= Len(line) THEN line[col] ELSE ""

\* Reading a CSV back: one series per named column of the header, holding
\* the (sample index, value) pair of every row whose field in that column
\* is not blank.
RECURSIVE ColumnPoints(_, _, _)
ColumnPoints(lines, r, col) ==
    IF r > Len(lines) THEN <<>>
    ELSE (IF FieldAt(lines[r], col) = "" THEN <<>>
          ELSE <<[x |-> StringToNum(lines[r][1]),
                  y |-> StringToNum(lines[r][col])]>>)
             \o ColumnPoints(lines, r + 1, col)

ParseCSV(lines) ==
    LET cols == SelectSeq([c \in 1..(Len(lines[1]) - 1) |-> c + 1],
                          LAMBDA c : lines[1][c] # "")
    IN  [k \in 1..Len(cols) |->
            [name |-> lines[1][cols[k]],
             data |-> ColumnPoints(lines, 2, cols[k])]]

\* C18 (as claimed): the CSV exported from a log, read back into
\* per-channel (sample index, value) pairs with the blank fields dropped,
\* gives the per-channel samples of the snapshot that handleDisconnect
\* built at disconnect.
C18_RoundTrip ==
    csv # <<>> /\ snapshot # <<>> => ParseCSV(csv) = snapshot[1]

\* C19 (as claimed): while the log is unmodified, a second snapshot equals
\* the first and a second CSV equals the first, whatever timers are
\* pending.  Both histories are emptied when a record is delivered and when
\* the log is cleared.
C19_RecomputeIdempotent ==
    [][/\ snapshot # <<>> /\ snapshot' # <<>> => snapshot' = snapshot
       /\ csv # <<>> /\ csv' # <<>> => csv' = csv]_vars

\* The series of one channel as the log holds it
SeriesOfLog(log, name) == HighResData(log, name :> 0)[1]

\* Two statistics give the same mean and the same standard deviation: the
\* fractions sum / numSamples and varNum / numSamples^2 are equal, and one
\* is over no sample (a standard deviation that is not a number) exactly
\* when the other is.
SameMeanAndStdev(a, b) ==
    /\ (a.numSamples = 0) <=> (b.numSamples = 0)
    /\ a.sum * b.numSamples = b.sum * a.numSamples
    /\ a.varNum * b.numSamples * b.numSamples
           = b.varNum * a.numSamples * a.numSamples

\* C20 (as claimed): the mean and the standard deviation shown for a
\* channel are those of exactly the values that the raw log holds for that
\* channel.
C20_StatisticsOverLog ==
    \A s \in 1..Len(statistics) :
        SameMeanAndStdev(
            statistics[s],
            SeriesStats(SeriesOfLog(serialData, statistics[s].name),
                        statistics[s].name))

\* The values the log holds for a channel, in log order
ValuesOfLog(log, name) ==
    LET data == SeriesOfLog(log, name).data
    IN  [i \in 1..Len(data) |-> data[i].y]

\* The statistics row of a channel
StatOf(name) ==
    statistics[CHOOSE s \in 1..Len(statistics) : statistics[s].name = name]

\* C21: the statistics of a channel take the number of its own samples as
\* denominator, the records without the channel not counting, and the
\* standard deviation is that of the population: when the log holds the
\* values 2, 4, 4, 4, 5, 5, 7, 9 for channel v, the row of v shows mean 5,
\* standard deviation 2 and RSD 40%.
C21_PopulationStatistics ==
    statistics # <<>> =>
        \A s \in 1..Len(statistics) :
            /\ statistics[s].numSamples =
                   Len(ValuesOfLog(serialData, statistics[s].name))
            /\ statistics[s].varDen =
                   statistics[s].numSamples * statistics[s].numSamples
            /\ (statistics[s].name = "v"
                /\ ValuesOfLog(serialData, "v") = <<2, 4, 4, 4, 5, 5, 7, 9>>)
                   => /\ MeanIs(statistics[s], 5)
                      /\ StdevIs(statistics[s], 2)
                      /\ RsdIs(statistics[s], 40)

\* C21 witness: the statistics of the whole recording, in which two of the
\* ten records do not carry channel v.
C21_Witness ==
    /\ serialData = Recording
    /\ statistics # <<>>
    /\ StatOf("v").numSamples = 8
    /\ MeanIs(StatOf("v"), 5)
    /\ StdevIs(StatOf("v"), 2)
    /\ RsdIs(StatOf("v"), 40)

C24_SamplesReferToLog ==
    \A s \in 1..Len(chartData) :
        \A p \in 1..Len(chartData[s].data) :
            LET point == chartData[s].data[p]
            IN  /\ point.x < Len(serialData)
                /\ JSONParse(serialData[point.x + 1]).type = "object"
                /\ HasKey(JSONParse(serialData[point.x + 1]),
                          chartData[s].name)
                /\ ValueOf(JSONParse(serialData[point.x + 1]),
                           chartData[s].name) = point.y

\* The record texts a sample can come from: those the throttled function
\* was invoked on and those the log holds
SampleSources ==
    {ran[j].jsonString : j \in 1..Len(ran)}
        \cup {serialData[i] : i \in 1..Len(serialData)}

\* Registry and series list are aligned: the indexes are exactly 0..n-1,
\* the series at position i carries the name of the key of index i, once,
\* and holds only values that some record has for that key.
Aligned ==
    /\ Len(chartData) = Cardinality(DOMAIN series)
    /\ {series[k] : k \in DOMAIN series} = 0..(Len(chartData) - 1)
    /\ \A k \in DOMAIN series : chartData[series[k] + 1].name = k
    /\ chart # <<>> => chart = chartData
    /\ \A s \in 1..Len(chartData) :
           \A p \in 1..Len(chartData[s].data) :
               \E text \in SampleSources :
                   /\ HasKey(JSONParse(text), chartData[s].name)
                   /\ ValueOf(JSONParse(text), chartData[s].name)
                          = chartData[s].data[p].y

\* A step that is not a clear keeps the index of every known key and gives
\* the new keys the indexes that follow, from the size of the registry on.
IndexesKept ==
    series' # EmptyMap =>
        /\ \A k \in DOMAIN series :
               k \in DOMAIN series' /\ series'[k] = series[k]
        /\ \A k \in DOMAIN series' \ DOMAIN series :
               series'[k] >= Cardinality(DOMAIN series)

\* C25: registry and series stay aligned.  Between clears a new key gets
\* the size of the registry as index and a known key keeps its index; the
\* indexes are exactly 0..n-1; a series is appended once per distinct key,
\* the series at position i carries the name of the key of index i and
\* receives only values of that key, also when records lack the key.
C25_RegistryAndSeriesAligned == []Aligned /\ [][IndexesKept]_vars

\* C25 witness: key x occurs in the records 0 and 2 and not in record 1;
\* its series holds the points 0 and 2 and the series of y the point 1.
C25_Witness ==
    /\ serialData = <<RecX, RecY, RecX>>
    /\ series = [k \in {"x", "y"} |-> IF k = "x" THEN 0 ELSE 1]
    /\ chartData = <<[name |-> "x",
                      data |-> <<[x |-> 0, y |-> 1], [x |-> 2, y |-> 1]>>],
                     [name |-> "y", data |-> <<[x |-> 1, y |-> 2]>>]>>
    /\ status = "connected"

(***************************************************************************)
(* useArduino: connect, disconnect and readLoop as asynchronous calls      *)
(* over the module variables port and reader                               *)
(***************************************************************************)
MaxCalls == 2
MaxReads == 3

\* The characters a device sends during the connection opened by call c
ConnChar(c) == <<"c1", "c2", "c3", "c4", "c5">>[c]

SerialChunks(c) ==
    IF c = 0 THEN {}
    ELSE {<<ConnChar(c)>>, <<ConnChar(c), "LF">>, <<"LF", ConnChar(c)>>}

\* The loops of a sequence that do not wait on one of the readers
LoopsNotOn(loops, readers) ==
    LET Keep(l) == l.on \notin readers IN SelectSeq(loops, Keep)

\* The fragments held by the loops that wait on one of the readers
FragmentsOn(loops, readers) ==
    LET Held(l) == l.on \in readers /\ l.readData # <<>>
        ended == SelectSeq(loops, Held)
    IN  [i \in 1..Len(ended) |-> ended[i].readData]

\* connect up to its first await: the guard, then requestPort is pending
SerialConnect ==
    /\ ~(serial.status = "connected" \/ serial.port # "null")
    /\ Len(serial.calls) < MaxCalls
    /\ serial' = [serial EXCEPT
                    !.calls = Append(@, [pc |-> "requestPort",
                                         port |-> "null"])]

\* requestPort resolves with the port the user chose: port is assigned and
\* port.open is called
RequestPortResolved(c, p) ==
    /\ serial.calls[c].pc = "requestPort"
    /\ p \notin serial.errored
    /\ serial' = [serial EXCEPT !.port = p,
                                !.calls[c] = [pc |-> "open", port |-> p]]

\* requestPort rejects (the chooser is dismissed): connect ends there
RequestPortRejected(c) ==
    /\ serial.calls[c].pc = "requestPort"
    /\ serial' = [serial EXCEPT !.calls[c].pc = "failed"]

\* port.open resolves: the rest of connect runs on the module variable port
\* as it is now.  A null port, or one that is not open and so has no
\* readable, raises a TypeError and the call ends; a readable that is already piped gives a reader that never
\* receives anything.  readLoop starts with readData = "".
OpenResolved(c) ==
    LET p == serial.calls[c].port
        opened == [serial.opened EXCEPT ![p] = c]
        q == serial.port
        reader == IF q \in serial.locked THEN "stalled" ELSE q
    IN  /\ serial.calls[c].pc = "open"
        /\ serial.opened[p] = 0
        /\ p \notin serial.errored
        /\ IF q = "null" \/ opened[q] = 0
           THEN serial' = [serial EXCEPT !.opened = opened,
                                         !.calls[c].pc = "failed"]
           ELSE serial' = [serial EXCEPT
                             !.opened = opened,
                             !.locked = @ \cup {q},
                             !.reader = reader,
                             !.loops = Append(@, [readData |-> <<>>,
                                                  on |-> reader]),
                             !.status = "connected",
                             !.calls[c].pc = "done"]

\* port.open rejects: connect ends there, port stays assigned
OpenRejected(c) ==
    /\ serial.calls[c].pc = "open"
    /\ serial' = [serial EXCEPT !.calls[c].pc = "failed"]

\* reader.read() resolves with a chunk of port p for the loop whose read is
\* first in line: one iteration of readLoop, then the next read() on the
\* module variable reader (a TypeError that ends the loop when it is null)
SerialRead(p, value) ==
    /\ serial.opened[p] # 0
    /\ p \notin serial.errored
    /\ serial.reads < MaxReads
    /\ \E i \in 1..Len(serial.loops) :
         /\ serial.loops[i].on = p
         /\ \A j \in 1..(i - 1) : serial.loops[j].on # p
         /\ LET r == Reassemble(value, serial.loops[i].readData,
                                readDelimiter)
                others == SubSeq(serial.loops, 1, i - 1)
                          \o SubSeq(serial.loops, i + 1, Len(serial.loops))
                texts == [k \in 1..Len(r.calls) |->
                             [text |-> r.calls[k],
                              conn |-> serial.opened[p]]]
            IN  serial' = [serial EXCEPT
                   !.reads = @ + 1,
                   !.emitted = @ \o texts,
                   !.dropped = IF serial.reader = "null"
                                  /\ r.readData # <<>>
                               THEN Append(@, r.readData) ELSE @,
                   !.loops = IF serial.reader = "null" THEN others
                             ELSE Append(others,
                                         [readData |-> r.readData,
                                          on |-> serial.reader])]

\* The stream of port p fails (the device is lost): the pending read()
\* rejects inside readLoop, which has no handler; nothing else runs
SerialReadError(p) ==
    /\ serial.opened[p] # 0
    /\ p \notin serial.errored
    /\ serial' = [serial EXCEPT
                    !.errored = @ \cup {p},
                    !.opened[p] = 0,
                    !.dropped = @ \o FragmentsOn(serial.loops, {p}),
                    !.loops = LoopsNotOn(@, {p})]

\* disconnect, its awaits folded into one step (while they are pending
\* status is "connected" and port is set, so connect returns at its guard).
\* reader.cancel() of a failed stream rejects and the call ends before any
\* assignment; port.close() of a port that is not open rejects and the call
\* ends before port = null.
SerialDisconnect ==
    LET q == serial.port
        cancelled == IF serial.reader = "null" THEN {} ELSE {serial.reader}
    IN  /\ ~(serial.status = "disconnected" \/ q = "null")
        /\ serial.reader \notin serial.errored
        /\ IF serial.opened[q] = 0
           THEN serial' = [serial EXCEPT
                    !.reader = "null",
                    !.locked = @ \ cancelled,
                    !.dropped = @ \o FragmentsOn(serial.loops, cancelled),
                    !.loops = LoopsNotOn(@, cancelled)]
           ELSE serial' = [serial EXCEPT
                    !.reader = "null",
                    !.locked = @ \ (cancelled \cup {q}),
                    !.dropped = @ \o FragmentsOn(serial.loops,
                                                 cancelled \cup {q}),
                    !.loops = LoopsNotOn(@, cancelled \cup {q}),
                    !.opened[q] = 0,
                    !.port = "null",
                    !.status = "disconnected"]

SerialNext ==
    \/ SerialConnect /\ UNCHANGED <<sessionVars, reasmCore, agent>>
    \/ \E c \in 1..Len(serial.calls), p \in Ports :
           RequestPortResolved(c, p)
           /\ UNCHANGED <<sessionVars, reasmCore, agent>>
    \/ \E c \in 1..Len(serial.calls) :
           RequestPortRejected(c)
           /\ UNCHANGED <<sessionVars, reasmCore, agent>>
    \/ \E c \in 1..Len(serial.calls) :
           OpenResolved(c) /\ UNCHANGED <<sessionVars, reasmCore, agent>>
    \/ \E c \in 1..Len(serial.calls) :
           OpenRejected(c) /\ UNCHANGED <<sessionVars, reasmCore, agent>>
    \/ \E p \in Ports :
           \E value \in SerialChunks(serial.opened[p]) :
               SerialRead(p, value)
               /\ UNCHANGED <<sessionVars, reasmCore, agent>>
    \/ \E p \in Ports :
           SerialReadError(p) /\ UNCHANGED <<sessionVars, reasmCore, agent>>
    \/ SerialDisconnect /\ UNCHANGED <<sessionVars, reasmCore, agent>>

SpecSerial == Init /\ [][SerialNext]_vars

(***************************************************************************)
(* Properties of useArduino                                                *)
(***************************************************************************)
OpenPorts == {p \in Ports : serial.opened[p] # 0}

CallsInFlight ==
    {c \in 1..Len(serial.calls) : serial.calls[c].pc \in {"requestPort", "open"}}

\* C23: after a transport error the status of the hook is "disconnected".
\* For useArduino: when the stream of the port held by the hook has failed
\* while reading, status is not left at "connected".
C23_ErrorReportedAsDisconnected ==
    serial.port \in serial.errored => serial.status = "disconnected"

\* C27: under any interleaving of connect and disconnect calls at most one
\* serial port is open and at most one read loop (one pending buffer) runs.
C27_OnePortOneLoop ==
    /\ Cardinality(OpenPorts) <= 1
    /\ Len(serial.loops) <= 1

\* C28: once a connect that had chosen its port has failed and no call is
\* in flight, a later connect is not a no-op: its guard lets it through.
C28_FailedConnectRecoverable ==
    (/\ \E c \in 1..Len(serial.calls) :
            /\ serial.calls[c].pc = "failed"
            /\ serial.calls[c].port # "null"
     /\ CallsInFlight = {}
     /\ serial.status = "disconnected")
    => serial.port = "null"

\* C29: the pending buffer is per connection.  Every record passed to
\* onRead is made only of data of the connection that delivered it (no
\* fragment of an ended connection is emitted, alone or as a prefix), and
\* every read loop starts with an empty buffer.
C29_RecordsOfOneConnection ==
    \A i \in 1..Len(serial.emitted) :
        \A k \in 1..Len(serial.emitted[i].text) :
            serial.emitted[i].text[k] = ConnChar(serial.emitted[i].conn)

C29_LoopStartsEmpty ==
    Len(serial'.loops) > Len(serial.loops)
        => serial'.loops[Len(serial'.loops)].readData = <<>>

C29_BufferPerConnection ==
    /\ []C29_RecordsOfOneConnection
    /\ [][C29_LoopStartsEmpty]_vars

(***************************************************************************)
(* useArduinoCreateAgent: fetchDevices as an asynchronous call over the    *)
(* module variables socket and _currentCallback.  No device is connected   *)
(* (status "disconnected"), as when the protocol effect of the page calls  *)
(* fetchDevices.                                                           *)
(***************************************************************************)
MaxFetches == 2
MaxMessages == 6

HandshakeMessages == 4
ListMessages == 2

\* The messages of the agent: the acknowledgement of "list", or any other
Messages == {"list", "other"}

\* The executor of the promise on lines 209-234: the list callback is
\* installed, the timer is set and "list" is emitted
AwaitList(a, c) ==
    [a EXCEPT !.currentCallback = [kind |-> "list", call |-> c, count |-> 0],
              !.calls[c].pc = "list"]

\* fetchDevices after `await connectAgent()`: null without a socket
AfterConnectAgent(a, c) ==
    IF a.socket = 0
    THEN [a EXCEPT !.calls[c] = [pc |-> "done", result |-> "null"]]
    ELSE AwaitList(a, c)

\* One call of messageHandler.  The result holds the call whose connectAgent
\* promise was resolved (0 = none): it resumes after the event.
MessageHandler(a, message) ==
    LET cb == a.currentCallback
    IN  CASE cb.kind = "handshake" ->
               IF cb.count + 1 >= HandshakeMessages
               THEN [agent |-> [a EXCEPT !.currentCallback = NullCallback],
                     resumed |-> cb.call]
               ELSE [agent |-> [a EXCEPT !.currentCallback.count = @ + 1],
                     resumed |-> 0]
          [] cb.kind = "list" /\ message # "list" ->
               IF cb.count + 1 >= ListMessages
               THEN [agent |->
                       [a EXCEPT
                          !.currentCallback = NullCallback,
                          !.calls[cb.call] =
                              IF @.pc = "list"
                              THEN [pc |-> "done", result |-> "devices"]
                              ELSE @],
                     resumed |-> 0]
               ELSE [agent |-> [a EXCEPT !.currentCallback.count = @ + 1],
                     resumed |-> 0]
          [] OTHER -> [agent |-> a, resumed |-> 0]

\* A message event on a socket with n message listeners: messageHandler runs
\* n times, then the resolved call resumes
RECURSIVE MessageEvent(_, _, _, _)
MessageEvent(a, message, n, resumed) ==
    IF n = 0
    THEN IF resumed = 0 THEN a ELSE AfterConnectAgent(a, resumed)
    ELSE LET r == MessageHandler(a, message)
         IN  MessageEvent(r.agent, message, n - 1,
                          IF r.resumed # 0 THEN r.resumed ELSE resumed)

\* fetchDevices up to its first await: connectAgent when there is no
\* socket, the list request otherwise
FetchDevices ==
    /\ Len(agent.calls) < MaxFetches
    /\ LET c == Len(agent.calls) + 1
           a == [agent EXCEPT
                   !.calls = Append(@, [pc |-> "findServerPort",
                                        result |-> "pending"])]
       IN  agent' = IF agent.socket = 0 THEN a ELSE AwaitList(a, c)

\* findServerPort resolves.  Without a port connectAgent returns; with one,
\* io() makes a socket, assigns it to socket and the call awaits the
\* promise that the handshake callback resolves.
FindServerPortResolved(c, found) ==
    /\ agent.calls[c].pc = "findServerPort"
    /\ IF found
       THEN agent' = [agent EXCEPT
                        !.sockets = Append(@, [by |-> c,
                                               state |-> "connecting",
                                               listeners |-> 0]),
                        !.socket = Len(agent.sockets) + 1,
                        !.calls[c].pc = "handshake"]
       ELSE agent' = AfterConnectAgent(agent, c)

\* The "connect" event of socket s: the handler of lines 167-194 registers
\* the listeners on the module variable socket and installs the handshake
\* callback of the call that made s
SocketConnected(s) ==
    /\ agent.sockets[s].state = "connecting"
    /\ IF agent.socket = 0
       THEN agent' = [agent EXCEPT !.sockets[s].state = "connected"]
       ELSE agent' = [agent EXCEPT
                        !.sockets[s].state = "connected",
                        !.sockets[agent.socket].listeners = @ + 1,
                        !.currentCallback =
                            [kind |-> "handshake",
                             call |-> agent.sockets[s].by,
                             count |-> 0]]

\* The agent closes socket s: its "disconnect" listeners (lines 170-180)
\* remove the listeners of the module variable socket and set it to null
SocketClosed(s) ==
    /\ agent.sockets[s].state = "connected"
    /\ IF agent.sockets[s].listeners = 0 \/ agent.socket = 0
       THEN agent' = [agent EXCEPT !.sockets[s].state = "closed"]
       ELSE agent' = [agent EXCEPT
                        !.sockets[s].state = "closed",
                        !.sockets[agent.socket].listeners = 0,
                        !.socket = 0]

\* The agent sends a message on socket s
MessageReceived(s, message) ==
    /\ agent.sockets[s].state = "connected"
    /\ agent.sockets[s].listeners > 0
    /\ agent.messages < MaxMessages
    /\ agent' = MessageEvent([agent EXCEPT !.messages = @ + 1], message,
                             agent.sockets[s].listeners, 0)

\* The RESPONSE_TIMEOUT timer of call c fires: the call resolves with no
\* message; _currentCallback is left as it is
ResponseTimeout(c) ==
    /\ agent.calls[c].pc = "list"
    /\ agent' = [agent EXCEPT
                   !.calls[c] = [pc |-> "done", result |-> "empty"]]

AgentNext ==
    \/ FetchDevices /\ UNCHANGED <<sessionVars, reasmCore, serial>>
    \/ \E c \in 1..Len(agent.calls), found \in BOOLEAN :
           FindServerPortResolved(c, found)
           /\ UNCHANGED <<sessionVars, reasmCore, serial>>
    \/ \E s \in 1..Len(agent.sockets) :
           SocketConnected(s) /\ UNCHANGED <<sessionVars, reasmCore, serial>>
    \/ \E s \in 1..Len(agent.sockets) :
           SocketClosed(s) /\ UNCHANGED <<sessionVars, reasmCore, serial>>
    \/ \E s \in 1..Len(agent.sockets), message \in Messages :
           MessageReceived(s, message)
           /\ UNCHANGED <<sessionVars, reasmCore, serial>>
    \/ \E c \in 1..Len(agent.calls) :
           ResponseTimeout(c) /\ UNCHANGED <<sessionVars, reasmCore, serial>>

SpecAgent == Init /\ [][AgentNext]_vars

\* The same calls with the scheduling the code can rely on: a pending
\* findServerPort settles (every fetch of line 65 resolves or is caught) and
\* a timer that is set fires.  Nothing is assumed of the agent.
SpecAgentFair ==
    /\ SpecAgent
    /\ \A c \in 1..MaxFetches :
         /\ WF_vars(/\ c <= Len(agent.calls)
                    /\ \E found \in BOOLEAN : FindServerPortResolved(c, found)
                    /\ UNCHANGED <<sessionVars, reasmCore, serial>>)
         /\ WF_vars(/\ c <= Len(agent.calls)
                    /\ ResponseTimeout(c)
                    /\ UNCHANGED <<sessionVars, reasmCore, serial>>)

(***************************************************************************)
(* Properties of useArduinoCreateAgent                                     *)
(***************************************************************************)
LiveSockets ==
    {s \in 1..Len(agent.sockets) : agent.sockets[s].state # "closed"}

\* The callback of a call that has not finished is replaced only by that
\* call itself or when the call finishes in the same step
CallbackKept ==
    LET cb == agent.currentCallback
    IN  (/\ cb.kind # "null"
         /\ agent.calls[cb.call].pc # "done"
         /\ agent'.currentCallback.call # cb.call)
        => agent'.calls[cb.call].pc = "done"

\* C26: every fetchDevices call eventually resolves, whatever the agent
\* does.
C26_FetchDevicesTerminates ==
    \A c \in 1..MaxFetches :
        (Len(agent.calls) >= c)
            ~> (Len(agent.calls) >= c /\ agent.calls[c].pc = "done")

\* C30: under overlapping fetchDevices calls at most one agent socket
\* exists at a time and the message callback of a call is not overwritten
\* by another call before the call has its device list.
C30_OneSocketOwnCallback ==
    /\ [](Cardinality(LiveSockets) <= 1)
    /\ [][CallbackKept]_vars

====
